---- MODULE Spec2Model ----
(***************************************************************************)
(* Dispatch and aggregation engine of the DLRM offline harness             *)
(* (closed/Intel/code/dlrm-99.9/pytorch/python/offline.py).                *)
(*                                                                         *)
(* Processes: the main coordinator (main, with the load generator's calls  *)
(* into load_query_samples and issue_queries run on it), num_sockets       *)
(* Consumer processes, and the response_loadgen daemon thread.             *)
(* Channels: dsQueue (multiprocessing.Queue), inQueue (JoinableQueue with  *)
(* a capacity and an unfinished-task count), outQueue (Queue).             *)
(***************************************************************************)
EXTENDS Integers, Sequences, FiniteSets, TLC

\* ------------------------------------------------------------------ bounds
NumSockets == 2      \* worker processes of the checked configuration
MaxBatch   == 2      \* largest --max-batchsize tried
MaxLen     == 3      \* longest query batch one issue_queries call carries
MaxCalls   == 1      \* issue_queries calls of one run
MaxFails   == 1      \* inference failures injected in one run
NumSamples == 3      \* samples (aggregated queries) of the dataset
MaxSockets == 4      \* largest NUM_SOCKETS tried for the core ranges
MaxCpus    == 9      \* largest CPUS_PER_SOCKET tried for the core ranges

\* --------------------------------------------------------- program constants
QueueFactor   == 4   \* JoinableQueue(num_sockets * 4)
NumericFields == 2   \* torch.cat((results, batch_T), dim=1): result, target
FloatBytes    == 4   \* np.float32
CpusPerSocket == 28  \* int(os.getenv('CPUS_PER_SOCKET', 28))

VARIABLES
  num_sockets,    \* NUM_SOCKETS
  max_batchsize,  \* args.max_batchsize
  accuracy,       \* args.accuracy
  init_counter,   \* multiprocessing.Value: the ready counter
  total_samples,  \* multiprocessing.Value: published item count
  dsQueue,        \* number of sample lists waiting on dsQueue
  inQueue,        \* the Work Queue: Items and None sentinels, in order
  unfinished,     \* JoinableQueue's count of tasks not yet task_done()
  outQueue,       \* the Result Queue: OItems and the None sentinel
  wpc,            \* position of each Consumer in run()
  qitem,          \* the item each Consumer holds
  cpc,            \* position of response_loadgen
  oitem,          \* the OItem response_loadgen holds
  item_good, item_total, item_timing,   \* the aggregate counters
  mpc,            \* position of main
  started,        \* consumers started so far / loop index of main's loops
  qsl_total,      \* total_samples.value as read for ConstructQSL
  start_time,     \* 0 until load_query_samples records it
  todo,           \* Items the running enqueue call has still to put
  call,           \* arguments of the running / last enqueue call
  pushed,         \* history: Items the running / last enqueue call has put
  calls,          \* issue_queries calls made
  nextId,         \* next fresh query id of the load generator
  fails,          \* inference failures injected so far
  result_dict,    \* good/total as read by main after StartTest
  pulled,         \* history: per query id, times an Item holding it was pulled
  produced,       \* history: per query id, OItems put that hold it
  answered,       \* per query id, response records handed to QuerySamplesComplete
  nPulled,        \* history: real Items pulled by the consumers
  nProduced,      \* history: OItems put on outQueue
  failed,         \* history: whether each consumer has had an inference failure
  issued,         \* history: all query ids / sample indexes passed to enqueue so far
  response,       \* the argument of the last lg.QuerySamplesComplete call
  nCallbacks,     \* history: lg.QuerySamplesComplete calls made
  nPushed,        \* history: Items put on inQueue
  acked,          \* history: task_done() calls made for the Item of each query id
  nSentinel,      \* history: None sentinels each consumer has taken
  cpus_per_socket, \* the module global read from CPUS_PER_SOCKET
  affinity        \* self.affinity of each Consumer object, {} before it is made

vars == <<num_sockets, max_batchsize, accuracy, init_counter, total_samples,
          dsQueue, inQueue, unfinished, outQueue, wpc, qitem, cpc, oitem,
          item_good, item_total, item_timing, mpc, started, qsl_total,
          start_time, todo, call, pushed, calls, nextId, fails, result_dict,
          pulled, produced, answered, nPulled, nProduced, failed, issued,
          response, nCallbacks,
          nPushed, acked, nSentinel,
          cpus_per_socket, affinity>>

\* ----------------------------------------------------------------- helpers
Min(a, b) == IF a < b THEN a ELSE b

Procs == 0 .. (num_sockets - 1)

MaxIds == MaxCalls * MaxLen
Ids == 1 .. MaxIds

None == [none |-> TRUE]
NoItem == [idle |-> TRUE]

RECURSIVE SumSeq(_)
SumSeq(s) == IF s = << >> THEN 0 ELSE Head(s) + SumSeq(Tail(s))

RECURSIVE Concat(_)
Concat(ss) == IF ss = << >> THEN << >> ELSE Head(ss) \o Concat(Tail(ss))

\* Python's s[i:ie] for 0 <= i: clamped to the sequence, empty when i >= len(s)
PySlice(s, i, ie) ==
  IF i >= Min(ie, Len(s)) THEN << >> ELSE SubSeq(s, i + 1, Min(ie, Len(s)))

Item(query_id, content_id) == [query_id |-> query_id, content_id |-> content_id]

\* ------------------------------------------------- QueueRunner.enqueue (pure)
\* range(0, query_len, bs): the start offsets of the slices
RangeStarts(query_len, bs) ==
  [k \in 1 .. ((query_len + bs - 1) \div bs) |-> (k - 1) * bs]

\* mutant of SliceEnd: the last slice is cut one element short
SliceEndShort(i, bs, query_len) == Min(i + bs, query_len - 1)

\* ie = min(i + bs, query_len)
SliceEnd(i, bs, query_len) == Min(i + bs, query_len)

\* The Items one enqueue(query_id, idx) call puts on inQueue, in put order
EnqueueItems(query_id, idx, bs) ==
  LET query_len == Len(query_id) IN
  IF query_len < bs
  THEN << Item(query_id, idx) >>
  ELSE LET starts == RangeStarts(query_len, bs) IN
       [k \in 1 .. Len(starts) |->
          LET i  == starts[k]
              ie == SliceEnd(i, bs, query_len)
          IN Item(PySlice(query_id, i, ie), PySlice(idx, i, ie))]

\* ------------------------------------------- dataset and backend capabilities
\* ds.get_item_count()
ItemCount == NumSamples

\* number of underlying samples aggregated into the query at sample index ref
\* (--samples-to-aggregate*): not uniform
Width(ref) == 1 + (ref % 2)

\* rows of that query whose rounded prediction equals the target
GoodRows(ref) == IF ref % 3 = 2 THEN 0 ELSE 1

\* idx_offsets of ds.get_samples(content_id): query position -> first row
RECURSIVE IdxOffsets(_)
IdxOffsets(content_id) ==
  IF content_id = << >> THEN << 0 >>
  ELSE LET front == IdxOffsets(SubSeq(content_id, 1, Len(content_id) - 1))
       IN Append(front, front[Len(front)] + Width(content_id[Len(content_id)]))

\* len(results): one row per underlying sample of the batch
ResultRows(content_id) == SumSeq([k \in 1 .. Len(content_id) |-> Width(content_id[k])])

\* (results.round() == batch_T).nonzero().size(0)
GoodCount(content_id) == SumSeq([k \in 1 .. Len(content_id) |-> GoodRows(content_id[k])])

\* Where the try block of Consumer.run can raise: nowhere, in model.predict /
\* detach (before total is set), in the good count (after total is set), or in
\* torch.cat (after good is set). The dataset calls outside the try block
\* (get_samples on samples of the loaded window) do not fail.
FailPoints == {"none", "predict", "round", "cat"}

\* total, good and presults as they stand when the finally block runs.
\* presults is described by its shape: a tensor of ResultRows x NumericFields
\* on success, [[]] * len(query_id) after the except clause.
TryTotal(it, fp) == IF fp = "predict" THEN 0 ELSE ResultRows(it.content_id)

TryGood(it, fp) == IF fp \in {"predict", "round"} THEN 0 ELSE GoodCount(it.content_id)

\* mutant of FailPresults: [[0]] * len(qitem.query_id), one value per row
FailPresultsFilled(it) == [rows |-> Len(it.query_id), cols |-> 1]

FailPresults(it) == [rows |-> Len(it.query_id), cols |-> 0]

TryPresults(it, fp) ==
  IF fp = "none"
  THEN [rows |-> ResultRows(it.content_id), cols |-> NumericFields]
  ELSE FailPresults(it)

\* len(np.array(presults[s_idx:e_idx], np.float32).tobytes())
ResponseBytes(presults, s_idx, e_idx) ==
  LET lo == Min(s_idx, presults.rows)
      hi == Min(e_idx, presults.rows)
  IN FloatBytes * presults.cols * (IF hi > lo THEN hi - lo ELSE 0)

\* mutant of ResponseArrayRefs: one row per query id, presults[idx:idx + 1]
ResponseArrayRefsUniform(it, presults) ==
  [idx \in 1 .. Len(it.query_id) |-> ResponseBytes(presults, idx - 1, idx)]

\* response_array_refs of the finally block: one byte array per query id
ResponseArrayRefs(it, presults) ==
  LET idx_offsets == IdxOffsets(it.content_id) IN
  [idx \in 1 .. Len(it.query_id) |->
     ResponseBytes(presults, idx_offsets[idx], idx_offsets[idx + 1])]

\* The OItem put on result_queue (presults kept as its row count; rows, the
\* row count of the batch, content_id and fail are history)
OItem(it, fp) ==
  LET presults == TryPresults(it, fp) IN
  [ query_ids |-> it.query_id,
    array_ref |-> ResponseArrayRefs(it, presults),
    good      |-> TryGood(it, fp),
    total     |-> TryTotal(it, fp),
    timing    |-> IF accuracy /\ fp = "none" THEN 1 ELSE 0,
    presults  |-> IF accuracy THEN presults.rows ELSE 0,
    rows      |-> ResultRows(it.content_id),
    content_id |-> it.content_id,
    fail      |-> fp ]

\* ids held by a sequence of Items / an Item
IdsOf(seq) == {seq[k] : k \in 1 .. Len(seq)}

Bump(f, S) == [x \in DOMAIN f |-> IF x \in S THEN f[x] + 1 ELSE f[x]]

\* ------------------------------------------------------------------- Init
Capacity == num_sockets * QueueFactor

InitCommon ==
  /\ num_sockets = NumSockets
  /\ max_batchsize \in 1 .. MaxBatch
  /\ inQueue = << >> /\ unfinished = 0 /\ outQueue = << >>
  /\ oitem = NoItem
  /\ item_good = 0 /\ item_total = 0 /\ item_timing = 0
  /\ todo = << >> /\ call = Item(<< >>, << >>) /\ pushed = << >>
  /\ calls = 0 /\ nextId = 1 /\ fails = 0
  /\ result_dict = [good |-> 0, total |-> 0]
  /\ pulled = [i \in Ids |-> 0]
  /\ produced = [i \in Ids |-> 0]
  /\ answered = [i \in Ids |-> 0]
  /\ nPulled = 0 /\ nProduced = 0
  /\ issued = Item(<< >>, << >>)
  /\ response = << >> /\ nCallbacks = 0
  /\ nPushed = 0 /\ acked = [i \in Ids |-> 0]
  /\ nSentinel = [w \in 0 .. (NumSockets - 1) |-> 0]
  /\ failed = [w \in 0 .. (NumSockets - 1) |-> FALSE]

Init ==
  /\ InitCommon
  /\ accuracy \in BOOLEAN
  /\ init_counter = 0 /\ total_samples = 0 /\ dsQueue = 0
  /\ wpc = [w \in 0 .. (NumSockets - 1) |-> "Starting"]
  /\ qitem = [w \in 0 .. (NumSockets - 1) |-> NoItem]
  /\ cpc = "unstarted"
  /\ mpc = "start" /\ started = 0 /\ qsl_total = 0 /\ start_time = 0
  /\ cpus_per_socket = CpusPerSocket
  /\ affinity = [w \in 0 .. (NumSockets - 1) |-> {}]

\* ------------------------------------------------------------- Consumer.run
\* run() up to the end of warmup(): the first ready-counter increment and the
\* publication of the item count, both under the lock
Warmup(w) ==
  /\ w \in Procs /\ wpc[w] = "Warming"
  /\ init_counter' = init_counter + 1
  /\ total_samples' = ItemCount
  /\ wpc' = [wpc EXCEPT ![w] = "AwaitingSampleLoad"]
  /\ UNCHANGED <<num_sockets, max_batchsize, accuracy, dsQueue, inQueue,
                 unfinished, outQueue, qitem, cpc, oitem, item_good, item_total,
                 item_timing, mpc, started, qsl_total, start_time, todo, call,
                 pushed, calls, nextId, fails, result_dict, pulled, produced,
                 answered, nPulled, nProduced,
                 failed,
                 issued, response, nCallbacks,
                 nPushed, acked, nSentinel,
                 cpus_per_socket, affinity>>

\* sample_list = self.ds_queue.get()
DsGet(w) ==
  /\ w \in Procs /\ wpc[w] = "AwaitingSampleLoad"
  /\ dsQueue > 0
  /\ dsQueue' = dsQueue - 1
  /\ wpc' = [wpc EXCEPT ![w] = "Loading"]
  /\ UNCHANGED <<num_sockets, max_batchsize, accuracy, init_counter,
                 total_samples, inQueue, unfinished, outQueue, qitem, cpc, oitem,
                 item_good, item_total, item_timing, mpc, started, qsl_total,
                 start_time, todo, call, pushed, calls, nextId, fails,
                 result_dict, pulled, produced, answered, nPulled, nProduced,
                 failed,
                 issued, response, nCallbacks,
                 nPushed, acked, nSentinel,
                 cpus_per_socket, affinity>>

\* ds.load_query_samples(sample_list) and the second ready-counter increment
LoadSamples(w) ==
  /\ w \in Procs /\ wpc[w] = "Loading"
  /\ init_counter' = init_counter + 1
  /\ wpc' = [wpc EXCEPT ![w] = "Ready"]
  /\ UNCHANGED <<num_sockets, max_batchsize, accuracy, total_samples, dsQueue,
                 inQueue, unfinished, outQueue, qitem, cpc, oitem, item_good,
                 item_total, item_timing, mpc, started, qsl_total, start_time,
                 todo, call, pushed, calls, nextId, fails, result_dict, pulled,
                 produced, answered, nPulled, nProduced,
                 failed,
                 issued, response, nCallbacks,
                 nPushed, acked, nSentinel,
                 cpus_per_socket, affinity>>

\* mutant of TaskGet: task_done() is called as soon as the Item is taken
TaskGetAcksEarly(w) ==
  /\ w \in Procs /\ wpc[w] \in {"Ready", "Running"}
  /\ inQueue # << >>
  /\ inQueue' = Tail(inQueue)
  /\ qitem' = [qitem EXCEPT ![w] = Head(inQueue)]
  /\ wpc' = [wpc EXCEPT ![w] = IF Head(inQueue) = None THEN "Draining" ELSE "Predict"]
  /\ pulled' = IF Head(inQueue) = None THEN pulled
               ELSE Bump(pulled, IdsOf(Head(inQueue).query_id))
  /\ nPulled' = IF Head(inQueue) = None THEN nPulled ELSE nPulled + 1
  /\ nSentinel' = IF Head(inQueue) = None
                  THEN [nSentinel EXCEPT ![w] = nSentinel[w] + 1]
                  ELSE nSentinel
  /\ unfinished' = IF Head(inQueue) = None THEN unfinished ELSE unfinished - 1
  /\ acked' = IF Head(inQueue) = None THEN acked
              ELSE Bump(acked, IdsOf(Head(inQueue).query_id))
  /\ UNCHANGED <<num_sockets, max_batchsize, accuracy, init_counter,
                 total_samples, dsQueue, outQueue, cpc, oitem, item_good,
                 item_total, item_timing, mpc, started, qsl_total, start_time,
                 todo, call, pushed, calls, nextId, fails, result_dict,
                 produced, answered, nProduced, failed, issued, response,
                 nCallbacks, nPushed,
                 cpus_per_socket, affinity>>

\* mutant of TaskGet: the Item is read but left at the head of the queue
TaskGetPeek(w) ==
  /\ w \in Procs /\ wpc[w] \in {"Ready", "Running"}
  /\ inQueue # << >>
  /\ inQueue' = IF Head(inQueue) = None THEN Tail(inQueue) ELSE inQueue
  /\ qitem' = [qitem EXCEPT ![w] = Head(inQueue)]
  /\ wpc' = [wpc EXCEPT ![w] = IF Head(inQueue) = None THEN "Draining" ELSE "Predict"]
  /\ pulled' = IF Head(inQueue) = None THEN pulled
               ELSE Bump(pulled, IdsOf(Head(inQueue).query_id))
  /\ nPulled' = IF Head(inQueue) = None THEN nPulled ELSE nPulled + 1
  /\ nSentinel' = IF Head(inQueue) = None
                  THEN [nSentinel EXCEPT ![w] = nSentinel[w] + 1]
                  ELSE nSentinel
  /\ UNCHANGED <<num_sockets, max_batchsize, accuracy, init_counter,
                 total_samples, dsQueue, unfinished, outQueue, cpc, oitem,
                 item_good, item_total, item_timing, mpc, started, qsl_total,
                 start_time, todo, call, pushed, calls, nextId, fails,
                 result_dict, produced, answered, nProduced, failed, issued,
                 response, nCallbacks,
                 nPushed, acked,
                 cpus_per_socket, affinity>>

\* qitem = self.task_queue.get(): a real Item or the None sentinel
TaskGet(w) ==
  /\ w \in Procs /\ wpc[w] \in {"Ready", "Running"}
  /\ inQueue # << >>
  /\ inQueue' = Tail(inQueue)
  /\ qitem' = [qitem EXCEPT ![w] = Head(inQueue)]
  /\ wpc' = [wpc EXCEPT ![w] = IF Head(inQueue) = None THEN "Draining" ELSE "Predict"]
  /\ pulled' = IF Head(inQueue) = None THEN pulled
               ELSE Bump(pulled, IdsOf(Head(inQueue).query_id))
  /\ nPulled' = IF Head(inQueue) = None THEN nPulled ELSE nPulled + 1
  /\ nSentinel' = IF Head(inQueue) = None
                  THEN [nSentinel EXCEPT ![w] = nSentinel[w] + 1]
                  ELSE nSentinel
  /\ UNCHANGED <<num_sockets, max_batchsize, accuracy, init_counter,
                 total_samples, dsQueue, unfinished, outQueue, cpc, oitem,
                 item_good, item_total, item_timing, mpc, started, qsl_total,
                 start_time, todo, call, pushed, calls, nextId, fails,
                 result_dict, produced, answered, nProduced, failed,
                 issued, response, nCallbacks,
                 nPushed, acked,
                 cpus_per_socket, affinity>>

\* mutant of RunItem: result_queue.put sits inside the try block instead of
\* the finally block, so a failed Item produces no OItem
RunItemNoFinally(w, fp) ==
  /\ w \in Procs /\ wpc[w] = "Predict"
  /\ fp # "none" => fails < MaxFails
  /\ fails' = IF fp = "none" THEN fails ELSE fails + 1
  /\ outQueue' = IF fp = "none" THEN Append(outQueue, OItem(qitem[w], fp)) ELSE outQueue
  /\ produced' = IF fp = "none" THEN Bump(produced, IdsOf(OItem(qitem[w], fp).query_ids))
                 ELSE produced
  /\ nProduced' = IF fp = "none" THEN nProduced + 1 ELSE nProduced
  /\ failed' = [failed EXCEPT ![w] = failed[w] \/ fp # "none"]
  /\ wpc' = [wpc EXCEPT ![w] = "TaskDone"]
  /\ UNCHANGED <<num_sockets, max_batchsize, accuracy, init_counter,
                 total_samples, dsQueue, inQueue, unfinished, qitem, cpc, oitem,
                 item_good, item_total, item_timing, mpc, started, qsl_total,
                 start_time, todo, call, pushed, calls, nextId, result_dict,
                 pulled, answered, nPulled,
                 issued, response, nCallbacks,
                 nPushed, acked, nSentinel,
                 cpus_per_socket, affinity>>

\* mutant of RunItem: no except clause, so after the finally block the
\* exception leaves run() and the consumer process dies
RunItemNoExcept(w, fp) ==
  /\ w \in Procs /\ wpc[w] = "Predict"
  /\ fp # "none" => fails < MaxFails
  /\ fails' = IF fp = "none" THEN fails ELSE fails + 1
  /\ outQueue' = Append(outQueue, OItem(qitem[w], fp))
  /\ produced' = Bump(produced, IdsOf(OItem(qitem[w], fp).query_ids))
  /\ nProduced' = nProduced + 1
  /\ failed' = [failed EXCEPT ![w] = failed[w] \/ fp # "none"]
  /\ wpc' = [wpc EXCEPT ![w] = IF fp = "none" THEN "TaskDone" ELSE "Crashed"]
  /\ UNCHANGED <<num_sockets, max_batchsize, accuracy, init_counter,
                 total_samples, dsQueue, inQueue, unfinished, qitem, cpc, oitem,
                 item_good, item_total, item_timing, mpc, started, qsl_total,
                 start_time, todo, call, pushed, calls, nextId, result_dict,
                 pulled, answered, nPulled,
                 issued, response, nCallbacks,
                 nPushed, acked, nSentinel,
                 cpus_per_socket, affinity>>

\* get_samples, the try / except / finally block and result_queue.put
RunItem(w, fp) ==
  /\ w \in Procs /\ wpc[w] = "Predict"
  /\ fp # "none" => fails < MaxFails
  /\ fails' = IF fp = "none" THEN fails ELSE fails + 1
  /\ outQueue' = Append(outQueue, OItem(qitem[w], fp))
  /\ produced' = Bump(produced, IdsOf(OItem(qitem[w], fp).query_ids))
  /\ nProduced' = nProduced + 1
  /\ failed' = [failed EXCEPT ![w] = failed[w] \/ fp # "none"]
  /\ wpc' = [wpc EXCEPT ![w] = "TaskDone"]
  /\ UNCHANGED <<num_sockets, max_batchsize, accuracy, init_counter,
                 total_samples, dsQueue, inQueue, unfinished, qitem, cpc, oitem,
                 item_good, item_total, item_timing, mpc, started, qsl_total,
                 start_time, todo, call, pushed, calls, nextId, result_dict,
                 pulled, answered, nPulled,
                 issued, response, nCallbacks,
                 nPushed, acked, nSentinel,
                 cpus_per_socket, affinity>>

\* self.task_queue.task_done() at the end of the loop body
TaskDone(w) ==
  /\ w \in Procs /\ wpc[w] = "TaskDone"
  /\ unfinished' = unfinished - 1
  /\ acked' = Bump(acked, IdsOf(qitem[w].query_id))
  /\ qitem' = [qitem EXCEPT ![w] = NoItem]
  /\ wpc' = [wpc EXCEPT ![w] = "Running"]
  /\ UNCHANGED <<num_sockets, max_batchsize, accuracy, init_counter,
                 total_samples, dsQueue, inQueue, outQueue, cpc, oitem,
                 item_good, item_total, item_timing, mpc, started, qsl_total,
                 start_time, todo, call, pushed, calls, nextId, fails,
                 result_dict, pulled, produced, answered, nPulled, nProduced,
                 failed,
                 issued, response, nCallbacks,
                 nPushed, nSentinel,
                 cpus_per_socket, affinity>>

\* mutant of Drain: no break after the sentinel, the loop goes on to get()
DrainNoBreak(w) ==
  /\ w \in Procs /\ wpc[w] = "Draining"
  /\ unfinished' = unfinished - 1
  /\ qitem' = [qitem EXCEPT ![w] = NoItem]
  /\ wpc' = [wpc EXCEPT ![w] = "Running"]
  /\ UNCHANGED <<num_sockets, max_batchsize, accuracy, init_counter,
                 total_samples, dsQueue, inQueue, outQueue, cpc, oitem,
                 item_good, item_total, item_timing, mpc, started, qsl_total,
                 start_time, todo, call, pushed, calls, nextId, fails,
                 result_dict, pulled, produced, answered, nPulled, nProduced,
                 failed, issued, response, nCallbacks,
                 nPushed, acked, nSentinel,
                 cpus_per_socket, affinity>>

\* qitem is None: unload the samples, task_done(), break
Drain(w) ==
  /\ w \in Procs /\ wpc[w] = "Draining"
  /\ unfinished' = unfinished - 1
  /\ qitem' = [qitem EXCEPT ![w] = NoItem]
  /\ wpc' = [wpc EXCEPT ![w] = "Terminated"]
  /\ UNCHANGED <<num_sockets, max_batchsize, accuracy, init_counter,
                 total_samples, dsQueue, inQueue, outQueue, cpc, oitem,
                 item_good, item_total, item_timing, mpc, started, qsl_total,
                 start_time, todo, call, pushed, calls, nextId, fails,
                 result_dict, pulled, produced, answered, nPulled, nProduced,
                 failed,
                 issued, response, nCallbacks,
                 nPushed, acked, nSentinel,
                 cpus_per_socket, affinity>>

Consumer(w) ==
  \/ Warmup(w)
  \/ DsGet(w)
  \/ LoadSamples(w)
  \/ TaskGet(w)
  \/ \E fp \in FailPoints : RunItem(w, fp)
  \/ TaskDone(w)
  \/ Drain(w)

\* --------------------------------------------------------- response_loadgen
\* oitem = outQueue.get(); None ends the loop
ResponseGet ==
  /\ cpc = "get"
  /\ outQueue # << >>
  /\ outQueue' = Tail(outQueue)
  /\ oitem' = IF Head(outQueue) = None THEN NoItem ELSE Head(outQueue)
  /\ cpc' = IF Head(outQueue) = None THEN "done" ELSE "deliver"
  /\ UNCHANGED <<num_sockets, max_batchsize, accuracy, init_counter,
                 total_samples, dsQueue, inQueue, unfinished, wpc, qitem,
                 item_good, item_total, item_timing, mpc, started, qsl_total,
                 start_time, todo, call, pushed, calls, nextId, fails,
                 result_dict, pulled, produced, answered, nPulled, nProduced,
                 failed,
                 issued, response, nCallbacks,
                 nPushed, acked, nSentinel,
                 cpus_per_socket, affinity>>

\* mutant of Response: queries whose payload is empty get no response record
ResponseSkipEmpty(o) ==
  SelectSeq([k \in 1 .. Min(Len(o.query_ids), Len(o.array_ref)) |->
               [id |-> o.query_ids[k], size |-> o.array_ref[k]]],
            LAMBDA r : r.size > 0)

\* mutant of Response: the payloads are paired with the query ids back to front
ResponseReversed(o) ==
  [k \in 1 .. Min(Len(o.query_ids), Len(o.array_ref)) |->
     [id |-> o.query_ids[k], size |-> o.array_ref[Len(o.array_ref) + 1 - k]]]

\* the response records built by zip(oitem.query_ids, oitem.array_ref)
Response(o) ==
  [k \in 1 .. Min(Len(o.query_ids), Len(o.array_ref)) |->
     [id |-> o.query_ids[k], size |-> o.array_ref[k]]]

\* lg.QuerySamplesComplete(response)
QuerySamplesComplete ==
  /\ cpc = "deliver"
  /\ answered' = Bump(answered, {Response(oitem)[k].id : k \in 1 .. Len(Response(oitem))})
  /\ response' = Response(oitem)
  /\ nCallbacks' = nCallbacks + 1
  /\ cpc' = "count"
  /\ UNCHANGED <<num_sockets, max_batchsize, accuracy, init_counter,
                 total_samples, dsQueue, inQueue, unfinished, outQueue, wpc,
                 qitem, oitem, item_good, item_total, item_timing, mpc, started,
                 qsl_total, start_time, todo, call, pushed, calls, nextId, fails,
                 result_dict, pulled, produced, nPulled, nProduced,
                 failed, issued,
                 nPushed, acked, nSentinel,
                 cpus_per_socket, affinity>>

\* mutant of AddCounters: the counters are assigned, not accumulated
AddCountersOverwrite ==
  /\ cpc = "count"
  /\ item_good' = oitem.good
  /\ item_total' = oitem.total
  /\ item_timing' = IF accuracy THEN item_timing + 1 ELSE item_timing
  /\ oitem' = NoItem
  /\ cpc' = "get"
  /\ UNCHANGED <<num_sockets, max_batchsize, accuracy, init_counter,
                 total_samples, dsQueue, inQueue, unfinished, outQueue, wpc,
                 qitem, mpc, started, qsl_total, start_time, todo, call,
                 pushed, calls, nextId, fails, result_dict, pulled, produced,
                 answered, nPulled, nProduced, failed, issued, response,
                 nCallbacks,
                 nPushed, acked, nSentinel,
                 cpus_per_socket, affinity>>

\* item_good += oitem.good; item_total += oitem.total; the accuracy samples
AddCounters ==
  /\ cpc = "count"
  /\ item_good' = item_good + oitem.good
  /\ item_total' = item_total + oitem.total
  /\ item_timing' = IF accuracy THEN item_timing + 1 ELSE item_timing
  /\ oitem' = NoItem
  /\ cpc' = "get"
  /\ UNCHANGED <<num_sockets, max_batchsize, accuracy, init_counter,
                 total_samples, dsQueue, inQueue, unfinished, outQueue, wpc,
                 qitem, mpc, started, qsl_total, start_time, todo, call, pushed,
                 calls, nextId, fails, result_dict, pulled, produced, answered, nPulled, nProduced,
                 failed,
                 issued, response, nCallbacks,
                 nPushed, acked, nSentinel,
                 cpus_per_socket, affinity>>

Collector == ResponseGet \/ QuerySamplesComplete \/ AddCounters

\* mutant of Affinity: consumer 0 keeps a full-width range moved up by two
AffinityShifted(proc_num) ==
  IF proc_num = 0
  THEN 2 .. (cpus_per_socket + 2 - 1)
  ELSE (proc_num * cpus_per_socket) .. ((proc_num + 1) * cpus_per_socket - 1)

\* Consumer.__init__: range(2, cpus_per_socket) for consumer 0, otherwise
\* range(proc_num * cpus_per_socket, (proc_num + 1) * cpus_per_socket);
\* cpus_per_socket is an int, so round() leaves it as it is
Affinity(proc_num) ==
  IF proc_num = 0
  THEN 2 .. (cpus_per_socket - 1)
  ELSE (proc_num * cpus_per_socket) .. ((proc_num + 1) * cpus_per_socket - 1)

\* --------------------------------------------------------------------- main
\* Consumer(...) is built (its affinity computed) and c.start() is called
StartConsumer ==
  /\ mpc = "start" /\ started < num_sockets
  /\ affinity' = [affinity EXCEPT ![started] = Affinity(started)]
  /\ wpc' = [wpc EXCEPT ![started] = "Warming"]
  /\ started' = started + 1
  /\ mpc' = IF started + 1 = num_sockets THEN "wait_ready" ELSE "start"
  /\ UNCHANGED <<num_sockets, max_batchsize, accuracy, init_counter,
                 total_samples, dsQueue, inQueue, unfinished, outQueue, qitem,
                 cpc, oitem, item_good, item_total, item_timing, qsl_total,
                 start_time, todo, call, pushed, calls, nextId, fails,
                 result_dict, pulled, produced, answered, nPulled, nProduced,
                 failed,
                 issued, response, nCallbacks,
                 nPushed, acked, nSentinel,
                 cpus_per_socket>>

\* mutant of LoadedTarget: the second wait reuses the first barrier's target
LoadedTargetOnce == num_sockets

\* mutant of WarmupTarget: the first wait lets go one consumer early
WarmupTargetShort == num_sockets - 1

\* the ready-counter values main polls for
WarmupTarget == num_sockets

LoadedTarget == 2 * num_sockets

\* while init_counter.value < num_sockets: sleep; then the response thread is
\* started and total_samples.value is read for ConstructQSL
WaitReady ==
  /\ mpc = "wait_ready"
  /\ init_counter >= WarmupTarget
  /\ cpc' = "get"
  /\ qsl_total' = total_samples
  /\ started' = 0
  /\ mpc' = "load_samples"
  /\ UNCHANGED <<num_sockets, max_batchsize, accuracy, init_counter,
                 total_samples, dsQueue, inQueue, unfinished, outQueue, wpc,
                 qitem, oitem, item_good, item_total, item_timing, start_time,
                 todo, call, pushed, calls, nextId, fails, result_dict, pulled,
                 produced, answered, nPulled, nProduced,
                 failed,
                 issued, response, nCallbacks,
                 nPushed, acked, nSentinel,
                 cpus_per_socket, affinity>>

\* load_query_samples: for _ in range(num_sockets): dsQueue.put(sample_list)
BroadcastSamples ==
  /\ mpc = "load_samples" /\ started < num_sockets
  /\ dsQueue' = dsQueue + 1
  /\ started' = started + 1
  /\ mpc' = IF started + 1 = num_sockets THEN "wait_loaded" ELSE "load_samples"
  /\ UNCHANGED <<num_sockets, max_batchsize, accuracy, init_counter,
                 total_samples, inQueue, unfinished, outQueue, wpc, qitem, cpc,
                 oitem, item_good, item_total, item_timing, qsl_total,
                 start_time, todo, call, pushed, calls, nextId, fails,
                 result_dict, pulled, produced, answered, nPulled, nProduced,
                 failed,
                 issued, response, nCallbacks,
                 nPushed, acked, nSentinel,
                 cpus_per_socket, affinity>>

\* load_query_samples: while init_counter.value < 2 * num_sockets: sleep;
\* start_time = time.time()
WaitLoaded ==
  /\ mpc = "wait_loaded"
  /\ init_counter >= LoadedTarget
  /\ start_time' = 1
  /\ mpc' = "issue"
  /\ UNCHANGED <<num_sockets, max_batchsize, accuracy, init_counter,
                 total_samples, dsQueue, inQueue, unfinished, outQueue, wpc,
                 qitem, cpc, oitem, item_good, item_total, item_timing, started,
                 qsl_total, todo, call, pushed, calls, nextId, fails,
                 result_dict, pulled, produced, answered, nPulled, nProduced,
                 failed,
                 issued, response, nCallbacks,
                 nPushed, acked, nSentinel,
                 cpus_per_socket, affinity>>

\* The load generator's arguments of one issue_queries call: fresh response
\* ids and as many sample indexes
FreshIds(len) == [k \in 1 .. len |-> nextId + k - 1]

SampleIndexes(len, first) == [k \in 1 .. len |-> (first + k - 1) % NumSamples]

\* issue_queries -> runner.enqueue(query_id, idx): the Items to put are fixed
\* by the arguments; each put is a step of its own (EnqueuePut)
Enqueue(query_id, idx) ==
  /\ mpc = "issue" /\ calls < MaxCalls
  /\ calls' = calls + 1
  /\ nextId' = nextId + Len(query_id)
  /\ call' = Item(query_id, idx)
  /\ todo' = EnqueueItems(query_id, idx, max_batchsize)
  /\ pushed' = << >>
  /\ issued' = Item(issued.query_id \o query_id, issued.content_id \o idx)
  /\ mpc' = "enqueue"
  /\ UNCHANGED <<num_sockets, max_batchsize, accuracy, init_counter,
                 total_samples, dsQueue, inQueue, unfinished, outQueue, wpc,
                 qitem, cpc, oitem, item_good, item_total, item_timing, started,
                 qsl_total, start_time, fails, result_dict, pulled, produced,
                 answered, nPulled, nProduced,
                 failed,
                 response, nCallbacks,
                 nPushed, acked, nSentinel,
                 cpus_per_socket, affinity>>

IssueQueries ==
  \E len \in 1 .. MaxLen, first \in 0 .. 1 :
     Enqueue(FreshIds(len), SampleIndexes(len, first))

\* mutant of EnqueuePut: inQueue built without a maxsize, put never blocks
EnqueuePutUnbounded ==
  /\ mpc = "enqueue" /\ todo # << >>
  /\ inQueue' = Append(inQueue, Head(todo))
  /\ unfinished' = unfinished + 1
  /\ nPushed' = nPushed + 1
  /\ pushed' = Append(pushed, Head(todo))
  /\ todo' = Tail(todo)
  /\ mpc' = IF Tail(todo) = << >> THEN "issue" ELSE "enqueue"
  /\ UNCHANGED <<num_sockets, max_batchsize, accuracy, init_counter,
                 total_samples, dsQueue, outQueue, wpc, qitem, cpc, oitem,
                 item_good, item_total, item_timing, started, qsl_total,
                 start_time, call, calls, nextId, fails, result_dict, pulled,
                 produced, answered, nPulled, nProduced, failed, issued,
                 response, nCallbacks,
                 acked, nSentinel,
                 cpus_per_socket, affinity>>

\* self.inQueue.put(Item(...)): blocks while the queue is full
EnqueuePut ==
  /\ mpc = "enqueue" /\ todo # << >>
  /\ Len(inQueue) < Capacity
  /\ inQueue' = Append(inQueue, Head(todo))
  /\ unfinished' = unfinished + 1
  /\ nPushed' = nPushed + 1
  /\ pushed' = Append(pushed, Head(todo))
  /\ todo' = Tail(todo)
  /\ mpc' = IF Tail(todo) = << >> THEN "issue" ELSE "enqueue"
  /\ UNCHANGED <<num_sockets, max_batchsize, accuracy, init_counter,
                 total_samples, dsQueue, outQueue, wpc, qitem, cpc, oitem,
                 item_good, item_total, item_timing, started, qsl_total,
                 start_time, call, calls, nextId, fails, result_dict, pulled,
                 produced, answered, nPulled, nProduced,
                 failed,
                 issued, response, nCallbacks,
                 acked, nSentinel,
                 cpus_per_socket, affinity>>

\* The load generator ends a run only when every sample it issued has been
\* completed through QuerySamplesComplete: this is the condition under which
\* lg.StartTest returns.
AllCompleted == \A i \in DOMAIN answered : i < nextId => answered[i] >= 1

\* lg.StartTest returns; main then reads the counters (lines 547-552)
StartTestReturns ==
  /\ mpc = "issue" /\ calls >= 1
  /\ AllCompleted
  /\ result_dict' = IF accuracy THEN [good |-> item_good, total |-> item_total]
                    ELSE result_dict
  /\ mpc' = "join_in"
  /\ UNCHANGED <<num_sockets, max_batchsize, accuracy, init_counter,
                 total_samples, dsQueue, inQueue, unfinished, outQueue, wpc,
                 qitem, cpc, oitem, item_good, item_total, item_timing, started,
                 qsl_total, start_time, todo, call, pushed, calls, nextId, fails,
                 pulled, produced, answered, nPulled, nProduced,
                 failed,
                 issued, response, nCallbacks,
                 nPushed, acked, nSentinel,
                 cpus_per_socket, affinity>>

\* mutant of InQueueJoined: the sentinels are put without inQueue.join()
InQueueNotJoined == TRUE

\* inQueue.join() returns when every put has been matched by a task_done()
InQueueJoined == unfinished = 0

JoinInQueue ==
  /\ mpc = "join_in"
  /\ InQueueJoined
  /\ started' = 0
  /\ mpc' = "put_none"
  /\ UNCHANGED <<num_sockets, max_batchsize, accuracy, init_counter,
                 total_samples, dsQueue, inQueue, unfinished, outQueue, wpc,
                 qitem, cpc, oitem, item_good, item_total, item_timing,
                 qsl_total, start_time, todo, call, pushed, calls, nextId, fails,
                 result_dict, pulled, produced, answered, nPulled, nProduced,
                 failed,
                 issued, response, nCallbacks,
                 nPushed, acked, nSentinel,
                 cpus_per_socket, affinity>>

\* mutant of PutNone: one sentinel too few, for _ in consumers[1:]
PutNoneShort ==
  /\ mpc = "put_none" /\ started < num_sockets
  /\ Len(inQueue) < Capacity
  /\ inQueue' = Append(inQueue, None)
  /\ unfinished' = unfinished + 1
  /\ started' = started + 1
  /\ mpc' = IF started + 1 >= num_sockets - 1 THEN "join_consumers" ELSE "put_none"
  /\ UNCHANGED <<num_sockets, max_batchsize, accuracy, init_counter,
                 total_samples, dsQueue, outQueue, wpc, qitem, cpc, oitem,
                 item_good, item_total, item_timing, qsl_total, start_time,
                 todo, call, pushed, calls, nextId, fails, result_dict, pulled,
                 produced, answered, nPulled, nProduced, failed, issued,
                 response, nCallbacks, nPushed, acked, nSentinel,
                 cpus_per_socket, affinity>>

\* for _ in consumers: inQueue.put(None)
PutNone ==
  /\ mpc = "put_none" /\ started < num_sockets
  /\ Len(inQueue) < Capacity
  /\ inQueue' = Append(inQueue, None)
  /\ unfinished' = unfinished + 1
  /\ started' = started + 1
  /\ mpc' = IF started + 1 = num_sockets THEN "join_consumers" ELSE "put_none"
  /\ UNCHANGED <<num_sockets, max_batchsize, accuracy, init_counter,
                 total_samples, dsQueue, outQueue, wpc, qitem, cpc, oitem,
                 item_good, item_total, item_timing, qsl_total, start_time,
                 todo, call, pushed, calls, nextId, fails, result_dict, pulled,
                 produced, answered, nPulled, nProduced,
                 failed,
                 issued, response, nCallbacks,
                 nPushed, acked, nSentinel,
                 cpus_per_socket, affinity>>

\* for c in consumers: c.join() returns when every consumer process has ended
ConsumersJoined == \A w \in Procs : wpc[w] = "Terminated"

\* c.join() for every consumer, then outQueue.put(None)
JoinConsumers ==
  /\ mpc = "join_consumers"
  /\ ConsumersJoined
  /\ outQueue' = Append(outQueue, None)
  /\ mpc' = "finish"
  /\ UNCHANGED <<num_sockets, max_batchsize, accuracy, init_counter,
                 total_samples, dsQueue, inQueue, unfinished, wpc, qitem, cpc,
                 oitem, item_good, item_total, item_timing, started, qsl_total,
                 start_time, todo, call, pushed, calls, nextId, fails,
                 result_dict, pulled, produced, answered, nPulled, nProduced,
                 failed,
                 issued, response, nCallbacks,
                 nPushed, acked, nSentinel,
                 cpus_per_socket, affinity>>

\* DestroyQSL, DestroyFastSUT, results.json, return from main: the process
\* exits without joining response_worker, a daemon thread, which ends with it
Finish ==
  /\ mpc = "finish"
  /\ mpc' = "exited"
  /\ cpc' = IF cpc = "done" THEN "done" ELSE "killed"
  /\ UNCHANGED <<num_sockets, max_batchsize, accuracy, init_counter,
                 total_samples, dsQueue, inQueue, unfinished, outQueue, wpc,
                 qitem, oitem, item_good, item_total, item_timing, started,
                 qsl_total, start_time, todo, call, pushed, calls, nextId, fails,
                 result_dict, pulled, produced, answered, nPulled, nProduced,
                 failed,
                 issued, response, nCallbacks,
                 nPushed, acked, nSentinel,
                 cpus_per_socket, affinity>>

Main ==
  \/ StartConsumer
  \/ WaitReady
  \/ BroadcastSamples
  \/ WaitLoaded
  \/ IssueQueries
  \/ EnqueuePut
  \/ StartTestReturns
  \/ JoinInQueue
  \/ PutNone
  \/ JoinConsumers
  \/ Finish

\* ------------------------------------------------------------ specification
Next ==
  \/ StartConsumer
  \/ WaitReady
  \/ BroadcastSamples
  \/ WaitLoaded
  \/ IssueQueries
  \/ EnqueuePut
  \/ StartTestReturns
  \/ JoinInQueue
  \/ PutNone
  \/ JoinConsumers
  \/ Finish
  \/ \E w \in Procs : Warmup(w)
  \/ \E w \in Procs : DsGet(w)
  \/ \E w \in Procs : LoadSamples(w)
  \/ \E w \in Procs : TaskGet(w)
  \/ \E w \in Procs, fp \in FailPoints : RunItem(w, fp)
  \/ \E w \in Procs : TaskDone(w)
  \/ \E w \in Procs : Drain(w)
  \/ ResponseGet
  \/ QuerySamplesComplete
  \/ AddCounters

Spec == Init /\ [][Next]_vars

\* Fair scheduling: the operating system keeps running every consumer
\* process, the response thread and the main thread while they can take a step
FairSpec ==
  /\ Spec
  /\ WF_vars(Main)
  /\ WF_vars(Collector)
  /\ \A w \in 0 .. (NumSockets - 1) : WF_vars(Consumer(w))

\* ----------------------------------------- the Dispatch Front-End on its own
\* QueueRunner.enqueue driven with arbitrary argument pairs (any two lengths,
\* equal or not, empty or not) from the state the harness is in once both
\* barriers have passed; the consumers are not scheduled.
InitEnqueue ==
  /\ InitCommon
  /\ accuracy = FALSE
  /\ init_counter = 2 * NumSockets /\ total_samples = ItemCount /\ dsQueue = 0
  /\ wpc = [w \in 0 .. (NumSockets - 1) |-> "Ready"]
  /\ qitem = [w \in 0 .. (NumSockets - 1) |-> NoItem]
  /\ cpc = "get"
  /\ mpc = "issue" /\ started = NumSockets /\ qsl_total = ItemCount
  /\ start_time = 1
  /\ cpus_per_socket = CpusPerSocket
  /\ affinity = [w \in 0 .. (NumSockets - 1) |-> Affinity(w)]

EnqueueAny ==
  \E qlen \in 0 .. MaxLen, ilen \in 0 .. MaxLen, first \in 0 .. (NumSamples - 1) :
     Enqueue(FreshIds(qlen), SampleIndexes(ilen, first))

NextEnqueue ==
  \/ EnqueueAny
  \/ EnqueuePut

SpecEnqueue == InitEnqueue /\ [][NextEnqueue]_vars

\* ==================================================================== claims
\* The real OItems waiting on outQueue or held by response_loadgen
OnOutQueue == {outQueue[k] : k \in {j \in 1 .. Len(outQueue) : outQueue[j] # None}}

InFlightOItems == OnOutQueue \cup (IF oitem = NoItem THEN {} ELSE {oitem})

\* C1: every WorkItem a consumer has pulled has exactly one Outcome on the
\* Result Queue as soon as the consumer has left the inference step (none
\* before), each of its query ids is carried by exactly that one Outcome, and
\* every Outcome carries one payload per query id, on success and on failure.
C1_OneOutcomePerWorkItem ==
  /\ nProduced = nPulled - Cardinality({w \in Procs : wpc[w] = "Predict"})
  /\ \A i \in Ids :
       pulled[i] >= 1 =>
         produced[i] = IF \E w \in Procs : /\ wpc[w] = "Predict"
                                           /\ i \in IdsOf(qitem[w].query_id)
                       THEN 0 ELSE 1
  /\ \A i \in Ids : pulled[i] = 0 => produced[i] = 0
  /\ \A o \in InFlightOItems : Len(o.array_ref) = Len(o.query_ids)
  /\ \A w \in Procs :
       wpc[w] = "TaskDone" =>
         \A o \in InFlightOItems :
            IdsOf(o.query_ids) \cap IdsOf(qitem[w].query_id) # {} =>
               o.query_ids = qitem[w].query_id

C1_Witness ==
  \E o \in OnOutQueue, q \in OnOutQueue :
     /\ o.fail # "none" /\ Len(o.query_ids) >= 2 /\ Len(o.array_ref) = Len(o.query_ids)
     /\ q.fail = "none"

\* C2: no query id is ever handed to the delivery callback twice, and under
\* fair scheduling every query id passed to enqueue is eventually handed to it.
C2_AnsweredExactlyOnce ==
  /\ [](\A i \in Ids : answered[i] <= 1)
  /\ \A i \in Ids : (i < nextId) ~> (answered[i] = 1)

C2_Witness ==
  /\ cpc = "count"
  /\ oitem.fail = "predict"
  /\ \A i \in IdsOf(oitem.query_ids) : answered[i] = 1

\* C3: a completed enqueue call with equally long arguments of length L > 0 and
\* batch size B has put exactly ceil(L / B) Items, each of at most B queries,
\* whose query ids and sample references concatenate to the arguments; with
\* L <= B it has put the whole batch as one Item; and a batch of 5000 with
\* B = 2048 is cut into 2048, 2048 and 904.
Ceil(l, b) == CHOOSE n \in 0 .. l : n * b >= l /\ (n - 1) * b < l

ItemSizes(items) == [k \in 1 .. Len(items) |-> Len(items[k].query_id)]

\* sizes of the Items enqueue makes of a batch of 5000 with max batch size 2048
ScenarioSizes ==
  LET batch == [k \in 1 .. 5000 |-> k]
  IN ItemSizes(EnqueueItems(batch, batch, 2048))

EnqueueReturned == mpc = "issue" /\ calls >= 1

C3_SplitIntoBatches ==
  /\ ( /\ EnqueueReturned
       /\ Len(call.query_id) = Len(call.content_id)
       /\ Len(call.query_id) > 0 )
     => LET L == Len(call.query_id)
            B == max_batchsize
        IN /\ Len(pushed) = Ceil(L, B)
           /\ \A k \in 1 .. Len(pushed) :
                /\ Len(pushed[k].query_id) <= B
                /\ Len(pushed[k].content_id) = Len(pushed[k].query_id)
           /\ Concat([k \in 1 .. Len(pushed) |-> pushed[k].query_id]) = call.query_id
           /\ Concat([k \in 1 .. Len(pushed) |-> pushed[k].content_id]) = call.content_id
           /\ L <= B => pushed = << call >>
           /\ SubSeq(inQueue, Len(inQueue) - Len(pushed) + 1, Len(inQueue)) = pushed
  /\ ScenarioSizes = << 2048, 2048, 904 >>

C3_Witness ==
  /\ EnqueueReturned
  /\ Len(call.query_id) = Len(call.content_id)
  /\ Len(call.query_id) > max_batchsize
  /\ Len(call.query_id) % max_batchsize # 0
  /\ Len(pushed) >= 2

\* C4 (as claimed): when response_loadgen adds the counters of an Outcome whose
\* predict step failed, item_total grows by the row count of that batch and
\* item_good does not grow.
C4_TotalCountsFailedBatch ==
  [][ (cpc = "count" /\ cpc' = "get" /\ oitem.fail = "predict")
        => (item_total' = item_total + oitem.rows /\ item_good' = item_good) ]_vars

\* C5: an inference failure stays inside the consumer that hit it: that
\* consumer goes on to task_done() and back into its loop, where it can still
\* pull and process Items, the Outcome is still put, and the step changes
\* nothing of any other consumer.
InMainLoop == {"Running", "Predict", "TaskDone", "Draining", "Terminated"}

C5_FailureStaysInWorker ==
  /\ [](\A w \in Procs : failed[w] => wpc[w] \in InMainLoop)
  /\ [](\A w \in Procs :
          /\ (failed[w] /\ wpc[w] = "Running" /\ inQueue # << >>) => ENABLED TaskGet(w)
          /\ (failed[w] /\ wpc[w] = "Predict") => ENABLED RunItem(w, "none"))
  /\ [][ \A w \in Procs :
           (wpc[w] = "Predict" /\ wpc'[w] # "Predict")
             => /\ wpc'[w] = "TaskDone"
                /\ Len(outQueue') = Len(outQueue) + 1
                /\ \A v \in Procs \ {w} :
                     /\ wpc'[v] = wpc[v]
                     /\ qitem'[v] = qitem[v]
                     /\ failed'[v] = failed[v] ]_vars

\* a consumer that has had a failure has since processed another Item well
C5_Witness ==
  \E w \in Procs :
     /\ failed[w] /\ wpc[w] = "TaskDone"
     /\ \E o \in OnOutQueue : o.query_ids = qitem[w].query_id /\ o.fail = "none"
     /\ \E v \in Procs \ {w} : wpc[v] \in {"Predict", "TaskDone"}

\* C6: start_time is recorded only once every consumer has loaded the sample
\* window and made its second increment (init_counter >= 2N); while some
\* consumer has not, main is still inside load_query_samples or before it,
\* cannot leave its wait, and start_time is unset.
NotLoaded == {"Starting", "Warming", "AwaitingSampleLoad", "Loading"}

C6_StartAfterSecondBarrier ==
  /\ start_time # 0 =>
       /\ init_counter >= 2 * num_sockets
       /\ \A w \in Procs : wpc[w] \notin NotLoaded
  /\ (\E w \in Procs : wpc[w] \in NotLoaded) =>
       /\ start_time = 0
       /\ mpc \in {"start", "wait_ready", "load_samples", "wait_loaded"}
       /\ ~ENABLED WaitLoaded

C6_Witness ==
  /\ start_time # 0
  /\ mpc = "issue" /\ calls = 0
  /\ init_counter = 2 * num_sockets

\* C7: whenever a None sentinel is on the Work Queue or has been pulled by a
\* consumer, no real Item is queued, being processed or unacknowledged, and
\* none remains to be put.
SentinelOut ==
  \/ \E k \in 1 .. Len(inQueue) : inQueue[k] = None
  \/ \E w \in Procs : wpc[w] \in {"Draining", "Terminated"}

C7_SentinelsAfterDrain ==
  SentinelOut =>
    /\ \A k \in 1 .. Len(inQueue) : inQueue[k] = None
    /\ \A w \in Procs : wpc[w] \notin {"Predict", "TaskDone"}
    /\ todo = << >>
    /\ nProduced = nPulled
    /\ \A i \in Ids : i < nextId => pulled[i] = 1 /\ produced[i] = 1

C7_Witness ==
  /\ \E w \in Procs : wpc[w] = "Draining"
  /\ \E k \in 1 .. Len(inQueue) : inQueue[k] = None
  /\ nProduced >= 2

\* C8 (as claimed): the None sentinel reaches the Result Queue only after every
\* consumer has terminated, and once response_loadgen has stopped every OItem
\* that was produced has been taken off the queue and fully processed.
C8_CollectorOutlivesWorkers ==
  /\ ((\E k \in 1 .. Len(outQueue) : outQueue[k] = None) \/ cpc = "done")
       => \A w \in Procs : wpc[w] = "Terminated"
  /\ cpc \in {"done", "killed"} => (OnOutQueue = {} /\ oitem = NoItem)

\* C9 (as claimed): main does not finish before response_loadgen has taken the
\* None sentinel and ended.
C9_CoordinatorJoinsCollector == mpc = "exited" => cpc = "done"

\* C10 (as claimed): an enqueue call whose two arguments differ in length puts
\* no Item on the Work Queue.
C10_MismatchFailsFast ==
  Len(call.query_id) # Len(call.content_id) => (pushed = << >> /\ inQueue = << >>)

\* ------------------------------------------- consumers that die on the way up
\* Consumer.run has no handler around self.dataset(), backend.load() and
\* warmup(): an exception there ends the process before its first
\* init_counter increment
StartupFails(w) ==
  /\ w \in Procs /\ wpc[w] = "Warming"
  /\ wpc' = [wpc EXCEPT ![w] = "Crashed"]
  /\ UNCHANGED <<num_sockets, max_batchsize, accuracy, init_counter,
                 total_samples, dsQueue, inQueue, unfinished, outQueue, qitem,
                 cpc, oitem, item_good, item_total, item_timing, mpc, started,
                 qsl_total, start_time, todo, call, pushed, calls, nextId,
                 fails, result_dict, pulled, produced, answered, nPulled,
                 nProduced, failed, issued, response, nCallbacks,
                 nPushed, acked, nSentinel,
                 cpus_per_socket, affinity>>

\* nor around ds.load_query_samples(sample_list): an exception there ends the
\* process before its second increment
LoadFails(w) ==
  /\ w \in Procs /\ wpc[w] = "Loading"
  /\ wpc' = [wpc EXCEPT ![w] = "Crashed"]
  /\ UNCHANGED <<num_sockets, max_batchsize, accuracy, init_counter,
                 total_samples, dsQueue, inQueue, unfinished, outQueue, qitem,
                 cpc, oitem, item_good, item_total, item_timing, mpc, started,
                 qsl_total, start_time, todo, call, pushed, calls, nextId,
                 fails, result_dict, pulled, produced, answered, nPulled,
                 nProduced, failed, issued, response, nCallbacks,
                 nPushed, acked, nSentinel,
                 cpus_per_socket, affinity>>

NextStartup ==
  \/ Next
  \/ \E w \in Procs : StartupFails(w)
  \/ \E w \in Procs : LoadFails(w)

SpecStartup == Init /\ [][NextStartup]_vars

AtBarrier == mpc \in {"wait_ready", "wait_loaded"}

\* C11: when a worker will never reach the ready-counter target the main
\* process does not stay blocked at the barrier (it can take a step, the
\* fatal timeout), and it never starts the timed measurement
C11_BarrierTimeoutFatal ==
  (\E w \in Procs : wpc[w] = "Crashed") =>
     /\ AtBarrier => ENABLED Main
     /\ start_time = 0

\* Every Item of the calls made so far has been predicted and its OItem has
\* been through response_loadgen, counters included
AllCounted ==
  /\ calls >= 1 /\ todo = << >>
  /\ \A k \in 1 .. Len(inQueue) : inQueue[k] = None
  /\ \A w \in Procs : wpc[w] # "Predict"
  /\ OnOutQueue = {} /\ oitem = NoItem

\* C12: with no inference failure, once every OItem has been counted
\* item_good and item_total are what one Item holding all the issued samples
\* would give, however enqueue split the query and whichever consumers took
\* the pieces in whatever order
C12_CountersAreLinear ==
  (AllCounted /\ fails = 0) =>
     /\ item_good = TryGood(issued, "none")
     /\ item_total = TryTotal(issued, "none")

\* a query split into two or more Items, all counted, some rows not good
C12_Witness ==
  /\ AllCounted /\ fails = 0
  /\ nProduced >= 2
  /\ item_total > item_good /\ item_good > 0

\* the OItem is the outcome of one Item cut out of the issued queries: its
\* query ids and samples are a run of consecutive positions of what enqueue
\* was given
FromIssued(o) ==
  \E j \in 0 .. Len(issued.query_id) :
     /\ j + Len(o.query_ids) <= Len(issued.query_id)
     /\ Len(o.content_id) = Len(o.query_ids)
     /\ \A k \in 1 .. Len(o.query_ids) :
           /\ o.query_ids[k] = issued.query_id[j + k]
           /\ o.content_id[k] = issued.content_id[j + k]

NumOnOutQueue == Cardinality({k \in 1 .. Len(outQueue) : outQueue[k] # None})

\* C13: lg.QuerySamplesComplete has been called once for every OItem taken
\* off outQueue, and the call just made for oitem carried one record per
\* query id of its Item, in the Item's order, record k holding query id k and
\* the payload built for position k
C13_OneCallbackPerOutcome ==
  /\ nCallbacks + NumOnOutQueue + (IF cpc = "deliver" THEN 1 ELSE 0) = nProduced
  /\ \A o \in InFlightOItems : FromIssued(o)
  /\ cpc = "count" =>
       /\ Len(response) = Len(oitem.query_ids)
       /\ \A k \in 1 .. Len(oitem.query_ids) :
             /\ response[k].id = oitem.query_ids[k]
             /\ response[k].size = oitem.array_ref[k]
             /\ oitem.fail = "none" =>
                  response[k].size = FloatBytes * NumericFields * Width(oitem.content_id[k])

\* a two-query Item with payloads of different lengths is delivered after a
\* later Item of the same call: no order between Items
C13_Witness ==
  /\ cpc = "count" /\ nCallbacks = 2
  /\ Len(response) = 2 /\ response[1].id = 1
  /\ response[1].size # response[2].size /\ response[2].size > 0

\* how many Items of a sequence carry query id i
Holding(items, i) ==
  Cardinality({k \in 1 .. Len(items) :
                 items[k] # None /\ i \in IdsOf(items[k].query_id)})

\* C14: every Item put on inQueue is taken off it once, by one consumer:
\* a query id handed to enqueue is in exactly one place (still to be put, on
\* the queue, or pulled once), two consumers never hold the same Item, and
\* by the time the sentinels go out every issued id has been pulled once
C14_PulledExactlyOnce ==
  /\ \A i \in Ids : i < nextId =>
        Holding(todo, i) + Holding(inQueue, i) + pulled[i] = 1
  /\ \A i \in Ids : i >= nextId => pulled[i] = 0
  /\ \A w, v \in Procs :
        (w # v /\ wpc[w] = "Predict" /\ wpc[v] = "Predict") =>
           IdsOf(qitem[w].query_id) \cap IdsOf(qitem[v].query_id) = {}
  /\ SentinelOut => \A i \in Ids : i < nextId => pulled[i] = 1

\* two consumers predicting at once, a third Item still queued behind them
C14_Witness ==
  /\ wpc[0] = "Predict" /\ wpc[1] = "Predict"
  /\ \E k \in 1 .. Len(inQueue) : inQueue[k] # None

\* C15: an OItem made after a failure of predict or of the post-processing
\* has one payload per query id and every payload is empty, whatever the
\* offsets of the batch are; the records delivered for it are empty too
C15_FailureGivesEmptyPayloads ==
  /\ \A o \in InFlightOItems :
        o.fail # "none" =>
           /\ Len(o.array_ref) = Len(o.query_ids)
           /\ \A k \in 1 .. Len(o.array_ref) : o.array_ref[k] = 0
  /\ (cpc = "count" /\ oitem.fail # "none") =>
        \A k \in 1 .. Len(response) : response[k].size = 0

\* a failed two-query Item whose queries span different numbers of rows
C15_Witness ==
  /\ cpc = "count" /\ oitem.fail = "cat"
  /\ Len(oitem.query_ids) = 2 /\ Len(response) = 2
  /\ Width(oitem.content_id[1]) # Width(oitem.content_id[2])

\* ------------------------------------------ one consumer and a long query
\* NUM_SOCKETS=1, --max-batchsize 1 and a query of one sample more than
\* inQueue can hold, so that enqueue meets a full queue
InitFull ==
  /\ num_sockets = 1 /\ max_batchsize = 1 /\ accuracy = FALSE
  /\ init_counter = 0 /\ total_samples = 0 /\ dsQueue = 0
  /\ inQueue = << >> /\ unfinished = 0 /\ outQueue = << >>
  /\ wpc = [w \in {0} |-> "Starting"]
  /\ qitem = [w \in {0} |-> NoItem]
  /\ failed = [w \in {0} |-> FALSE]
  /\ cpc = "unstarted" /\ oitem = NoItem
  /\ item_good = 0 /\ item_total = 0 /\ item_timing = 0
  /\ mpc = "start" /\ started = 0 /\ qsl_total = 0 /\ start_time = 0
  /\ cpus_per_socket = CpusPerSocket /\ affinity = [w \in {0} |-> {}]
  /\ todo = << >> /\ call = Item(<< >>, << >>) /\ pushed = << >>
  /\ calls = 0 /\ nextId = 1 /\ fails = 0
  /\ result_dict = [good |-> 0, total |-> 0]
  /\ pulled = [i \in 1 .. MaxCalls * (QueueFactor + 1) |-> 0]
  /\ produced = [i \in 1 .. MaxCalls * (QueueFactor + 1) |-> 0]
  /\ answered = [i \in 1 .. MaxCalls * (QueueFactor + 1) |-> 0]
  /\ nPulled = 0 /\ nProduced = 0
  /\ issued = Item(<< >>, << >>)
  /\ response = << >> /\ nCallbacks = 0
  /\ nPushed = 0 /\ acked = [i \in 1 .. MaxCalls * (QueueFactor + 1) |-> 0]
  /\ nSentinel = [w \in {0} |-> 0]

IssueFull == Enqueue(FreshIds(Capacity + 1), SampleIndexes(Capacity + 1, 0))

NextFull ==
  \/ StartConsumer
  \/ WaitReady
  \/ BroadcastSamples
  \/ WaitLoaded
  \/ IssueFull
  \/ EnqueuePut
  \/ StartTestReturns
  \/ JoinInQueue
  \/ PutNone
  \/ JoinConsumers
  \/ Finish
  \/ \E w \in Procs : Consumer(w)
  \/ Collector

SpecFull == InitFull /\ [][NextFull]_vars

\* C16: inQueue never holds more than 4 * num_sockets entries, and while it
\* holds that many with an Item still to be put, the put is not possible and
\* main, which is inside enqueue, can do nothing else: the Item waits in
\* todo until a consumer has taken one off the queue
C16_WorkQueueBounded ==
  /\ Len(inQueue) <= 4 * num_sockets
  /\ (mpc = "enqueue" /\ Len(inQueue) = 4 * num_sockets) =>
        /\ todo # << >>
        /\ ~ ENABLED EnqueuePut
        /\ ~ ENABLED Main

\* main blocked in put on a full queue, the consumer has not taken an Item yet
C16_Witness ==
  /\ mpc = "enqueue" /\ todo # << >>
  /\ Len(inQueue) = 4 * num_sockets
  /\ wpc[0] = "Ready" /\ nPulled = 0

\* C17: in an OItem made without a failure the payload of query k is
\* 4 * numeric_fields * (e_idx - s_idx) bytes long, s_idx and e_idx being
\* entries k and k + 1 of the batch's own offset table; the spans need not
\* have the same width
C17_PayloadLengthFollowsSpan ==
  \A o \in InFlightOItems :
     o.fail = "none" =>
        LET idx_offsets == IdxOffsets(o.content_id) IN
        /\ Len(o.array_ref) = Len(o.query_ids)
        /\ \A k \in 1 .. Len(o.array_ref) :
              o.array_ref[k] = 4 * NumericFields * (idx_offsets[k + 1] - idx_offsets[k])

\* a successful two-query OItem whose spans are one and two rows wide
C17_Witness ==
  \E o \in InFlightOItems :
     /\ o.fail = "none" /\ Len(o.array_ref) = 2
     /\ o.array_ref[1] = 4 * NumericFields
     /\ o.array_ref[2] = 4 * NumericFields * 2

\* main is past the read of item_good / item_total that follows lg.StartTest
AfterRead == mpc \in {"join_in", "put_none", "join_consumers", "finish", "exited"}

\* C18 (as claimed): once main has read the counters, response_loadgen has
\* no OItem of the run left to add (none in hand, none on outQueue), and the
\* values main read are the final ones
C18_CountersFrozenAtRead ==
  AfterRead =>
     /\ oitem = NoItem /\ OnOutQueue = {}
     /\ accuracy => (result_dict.good = item_good /\ result_dict.total = item_total)

\* main has left the loop `while init_counter.value < num_sockets`
PastWarmupBarrier == mpc \notin {"start", "wait_ready"}

\* the consumer has made its first increment and published the item count
Published(w) == wpc[w] \notin {"Starting", "Warming"}

\* the consumer has taken the sample list off dsQueue
GotSamples(w) == wpc[w] \notin {"Starting", "Warming", "AwaitingSampleLoad"}

\* the consumer has made its second increment
LoadedSamples(w) == wpc[w] \notin NotLoaded

\* C19: the sample list is put on dsQueue only after main has seen
\* init_counter reach num_sockets; when main reads total_samples every
\* consumer has published it; no consumer takes the sample list or makes its
\* second increment before main has passed the first barrier; the counter
\* is the number of increments made
C19_BarriersOrdered ==
  /\ dsQueue > 0 => (PastWarmupBarrier /\ init_counter >= num_sockets)
  /\ PastWarmupBarrier =>
        /\ \A w \in Procs : Published(w)
        /\ total_samples = ItemCount /\ qsl_total = ItemCount
  /\ \A w \in Procs : (GotSamples(w) \/ LoadedSamples(w)) => PastWarmupBarrier
  /\ init_counter = Cardinality({w \in Procs : Published(w)})
                      + Cardinality({w \in Procs : LoadedSamples(w)})

\* one consumer has made its second increment while main is still handing
\* out the sample list and the other consumer waits for it
C19_Witness ==
  /\ mpc = "load_samples" /\ started = 1
  /\ \E w \in Procs : wpc[w] = "Ready"
  /\ \E w \in Procs : wpc[w] = "AwaitingSampleLoad"
  /\ init_counter = num_sockets + 1

\* the worker state a position of Consumer.run belongs to, by its place in
\* the order Starting, Warming, AwaitingSampleLoad, Ready, Running, Draining,
\* Terminated
Rank(pc) ==
  CASE pc = "Starting" -> 1
    [] pc = "Warming" -> 2
    [] pc \in {"AwaitingSampleLoad", "Loading"} -> 3
    [] pc = "Ready" -> 4
    [] pc \in {"Running", "Predict", "TaskDone"} -> 5
    [] pc = "Draining" -> 6
    [] pc = "Terminated" -> 7

\* C20: a consumer only moves forward through Starting, Warming,
\* AwaitingSampleLoad, Ready, Running, Draining, Terminated, one state at a
\* time (a Ready consumer whose first pull is the sentinel goes to Draining
\* without an Item in between); it pulls from inQueue only when it is Ready
\* or Running, that is with the sample list loaded and both increments made
\* and no sentinel received, and a held Item is only given up by finishing it
C20_WorkerStateOrder ==
  /\ [](\A w \in Procs :
          /\ Rank(wpc[w]) >= 4 => (LoadedSamples(w) /\ init_counter > num_sockets)
          /\ Rank(wpc[w]) >= 6 => qitem[w] \in {None, NoItem})
  /\ [][ \A w \in Procs :
           /\ Rank(wpc'[w]) >= Rank(wpc[w])
           /\ \/ Rank(wpc'[w]) <= Rank(wpc[w]) + 1
              \/ (wpc[w] = "Ready" /\ wpc'[w] = "Draining")
           /\ (qitem'[w] # qitem[w] /\ qitem'[w] # NoItem)
                => (wpc[w] \in {"Ready", "Running"} /\ qitem'[w] = Head(inQueue)
                      /\ inQueue' = Tail(inQueue)) ]_vars

\* one consumer has terminated after predicting an Item, the other went from
\* Ready to Draining without ever getting one
C20_Witness ==
  /\ \A w \in Procs : wpc[w] = "Terminated"
  /\ nPulled = 1 /\ nProduced = 1

\* main is past `for c in consumers: c.join()`
WorkersJoined == mpc \in {"finish", "exited"}

\* C21: under fair scheduling, once lg.StartTest has returned main gets past
\* inQueue.join() and past the join of every consumer; no consumer ever takes
\* two sentinels, and when the joins have returned each consumer has taken
\* exactly one, has acknowledged it and has ended, with no sentinel left on
\* the queue
C21_ShutdownCompletes ==
  /\ (mpc = "join_in") ~> (mpc = "put_none")
  /\ AfterRead ~> WorkersJoined
  /\ [](\A w \in Procs : nSentinel[w] <= 1)
  /\ [](\A w \in Procs : wpc[w] \in {"Draining", "Terminated"} <=> nSentinel[w] = 1)
  /\ [](WorkersJoined =>
          /\ \A w \in Procs : nSentinel[w] = 1 /\ wpc[w] = "Terminated"
          /\ inQueue = << >> /\ unfinished = 0)

\* every consumer joined, one sentinel each, after a run of two or more Items
\* one of which had failed
C21_Witness ==
  /\ WorkersJoined
  /\ \A w \in Procs : nSentinel[w] = 1 /\ wpc[w] = "Terminated"
  /\ nProduced >= 2 /\ fails = 1

\* inQueue.join() has returned
DrainReturned == mpc \in {"put_none", "join_consumers", "finish", "exited"}

\* C22: task_done() is called for an Item only once its OItem is on
\* result_queue, and at most once; the Items not yet acknowledged are the
\* ones join() waits for; so when inQueue.join() has returned every Item put
\* has been acknowledged once and there are as many OItems as Items put
C22_AckAfterOutcome ==
  /\ \A i \in Ids : acked[i] <= 1 /\ acked[i] <= produced[i] /\ produced[i] <= pulled[i]
  /\ \A w \in Procs :
        wpc[w] \in {"Predict", "TaskDone"} =>
           \A i \in IdsOf(qitem[w].query_id) :
              /\ acked[i] = 0
              /\ produced[i] = (IF wpc[w] = "TaskDone" THEN 1 ELSE 0)
  /\ (mpc \in {"issue", "enqueue", "join_in"}) =>
        (unfinished = 0 <=> \A i \in Ids : i < nextId => (Holding(todo, i) = 1 \/ acked[i] = 1))
  /\ DrainReturned =>
        /\ nProduced = nPushed
        /\ \A i \in Ids : i < nextId => (acked[i] = 1 /\ produced[i] = 1)

\* the drain wait has returned after three Items, each acknowledged once
C22_Witness ==
  /\ mpc = "put_none" /\ started = 0
  /\ nPushed = 3 /\ nProduced = 3
  /\ \A i \in Ids : i < nextId => acked[i] = 1

\* --------------------------------------- the core ranges of the consumers
\* Consumer.__init__ for every consumer, under any NUM_SOCKETS from 1 to
\* MaxSockets and any CPUS_PER_SOCKET from 0 to MaxCpus; the consumers are
\* only built and started, nothing else runs
InitAffinity ==
  /\ num_sockets \in 1 .. MaxSockets
  /\ cpus_per_socket \in 0 .. MaxCpus
  /\ max_batchsize = 1 /\ accuracy = FALSE
  /\ init_counter = 0 /\ total_samples = 0 /\ dsQueue = 0
  /\ inQueue = << >> /\ unfinished = 0 /\ outQueue = << >>
  /\ wpc = [w \in Procs |-> "Starting"]
  /\ qitem = [w \in Procs |-> NoItem]
  /\ failed = [w \in Procs |-> FALSE]
  /\ nSentinel = [w \in Procs |-> 0]
  /\ affinity = [w \in Procs |-> {}]
  /\ cpc = "unstarted" /\ oitem = NoItem
  /\ item_good = 0 /\ item_total = 0 /\ item_timing = 0
  /\ mpc = "start" /\ started = 0 /\ qsl_total = 0 /\ start_time = 0
  /\ todo = << >> /\ call = Item(<< >>, << >>) /\ pushed = << >>
  /\ calls = 0 /\ nextId = 1 /\ fails = 0
  /\ result_dict = [good |-> 0, total |-> 0]
  /\ pulled = [i \in Ids |-> 0]
  /\ produced = [i \in Ids |-> 0]
  /\ answered = [i \in Ids |-> 0]
  /\ acked = [i \in Ids |-> 0]
  /\ nPulled = 0 /\ nProduced = 0 /\ nPushed = 0
  /\ issued = Item(<< >>, << >>)
  /\ response = << >> /\ nCallbacks = 0

NextAffinity == StartConsumer

SpecAffinity == InitAffinity /\ [][NextAffinity]_vars

\* the consumers that have been built
Built == {w \in Procs : wpc[w] # "Starting"}

\* C23: the core sets of two different consumers never share a core;
\* consumer 0 has the cores from 2 up to cpus_per_socket - 1, every other
\* consumer p has the cpus_per_socket cores p * cpus_per_socket, ...,
\* (p + 1) * cpus_per_socket - 1
C23_CoreRangesDisjoint ==
  /\ \A p, q \in Built : p # q => affinity[p] \cap affinity[q] = {}
  /\ 0 \in Built =>
        affinity[0] = {c \in 0 .. MaxCpus : 2 <= c /\ c < cpus_per_socket}
  /\ \A p \in Built \ {0} :
        /\ Cardinality(affinity[p]) = cpus_per_socket
        /\ affinity[p] = {p * cpus_per_socket + k : k \in 0 .. (cpus_per_socket - 1)}

\* three or more consumers built with three cores per socket: consumer 0
\* has core 2 alone, consumer 2 has cores 6, 7 and 8
C23_Witness ==
  /\ num_sockets >= 3 /\ cpus_per_socket = 3
  /\ Built = Procs
  /\ affinity[0] = {2}
  /\ affinity[2] = {6, 7, 8}

====
